---- MODULE Spec2Model ----
(***************************************************************************)
(* Model of local-server.py: a static file server built from               *)
(* http.server.SimpleHTTPRequestHandler and socketserver.TCPServer with    *)
(* two overrides, end_headers (three fixed security headers) and           *)
(* guess_type (application/javascript for paths ending in ".js").          *)
(*                                                                         *)
(* Strings the code inspects character by character (request paths, file   *)
(* system paths, extensions) are sequences of one-character strings.       *)
(* Strings the code only copies (header values, reason phrases) are TLA+   *)
(* strings.  The inherited library methods are modelled from CPython 3.11. *)
(***************************************************************************)
EXTENDS Integers, Sequences, FiniteSets, TLC

(* ------------------------------ bounds --------------------------------- *)

\* Connections accepted during one run of the model.
MaxRequests == 2

\* Longest file content read from the served tree.
MaxContentLen == 1

(* -------------------------- program constants -------------------------- *)

PORT == 8000

protocol_version == "HTTP/1.0"

error_content_type == "text/html;charset=utf-8"

version_string == "SimpleHTTP/0.6 Python/3.11"

JS_MIME == "application/javascript"

(* ------------------------- character strings --------------------------- *)

\* str.lower() on the characters that occur in the modelled paths.
LowerChar(c) ==
  CASE c = "J" -> "j"
    [] c = "S" -> "s"
    [] c = "Z" -> "z"
    [] c = "A" -> "a"
    [] OTHER -> c

Lower(s) == [k \in 1..Len(s) |-> LowerChar(s[k])]

\* str.endswith(suffix)
EndsWith(s, suffix) ==
  /\ Len(s) >= Len(suffix)
  /\ SubSeq(s, Len(s) - Len(suffix) + 1, Len(s)) = suffix

\* str.startswith(prefix)
StartsWith(s, prefix) ==
  /\ Len(s) >= Len(prefix)
  /\ SubSeq(s, 1, Len(prefix)) = prefix

\* Index of the first occurrence of character c in s, 0 when absent.
FirstIndex(s, c) ==
  IF \E k \in 1..Len(s) : s[k] = c
  THEN CHOOSE k \in 1..Len(s) : s[k] = c /\ \A j \in 1..(k - 1) : s[j] # c
  ELSE 0

\* Index of the last occurrence of character c in s, 0 when absent
\* (str.rfind, shifted by one).
LastIndex(s, c) ==
  IF \E k \in 1..Len(s) : s[k] = c
  THEN CHOOSE k \in 1..Len(s) : s[k] = c /\ \A j \in (k + 1)..Len(s) : s[j] # c
  ELSE 0

\* s.split(c, 1)[0]
SplitFirst(s, c) ==
  IF FirstIndex(s, c) = 0 THEN s ELSE SubSeq(s, 1, FirstIndex(s, c) - 1)

\* s.split(c) : the list of the (possibly empty) segments between the c's.
RECURSIVE Split(_, _)
Split(s, c) ==
  IF FirstIndex(s, c) = 0
  THEN <<s>>
  ELSE <<SubSeq(s, 1, FirstIndex(s, c) - 1)>>
         \o Split(SubSeq(s, FirstIndex(s, c) + 1, Len(s)), c)

\* str.lstrip("/")
RECURSIVE LStripSlash(_)
LStripSlash(s) ==
  IF Len(s) > 0 /\ s[1] = "/" THEN LStripSlash(Tail(s)) ELSE s

\* posixpath.splitext(p)[1] : the extension starts at the last dot of the
\* last component, unless only dots precede it in that component.
SplitExt(p) ==
  LET sepIndex == LastIndex(p, "/")
      dotIndex == LastIndex(p, ".")
  IN IF dotIndex > sepIndex
        /\ \E k \in (sepIndex + 1)..(dotIndex - 1) : p[k] # "."
     THEN SubSeq(p, dotIndex, Len(p))
     ELSE <<>>

\* File name extensions that occur in the modelled paths.
EXT_GZ == <<".", "g", "z">>
EXT_Z == <<".", "Z">>
EXT_JS == <<".", "j", "s">>
EXT_JS_UPPER == <<".", "J", "S">>
EXT_MJS == <<".", "m", "j", "s">>
EXT_JSON == <<".", "j", "s", "o", "n">>
EXT_HTML == <<".", "h", "t", "m", "l">>
EXT_CSS == <<".", "c", "s", "s">>
EXT_ZZ == <<".", "z", "z">>

(* ----------------------------- served tree ----------------------------- *)

INDEX_HTML == <<"i", "n", "d", "e", "x", ".", "h", "t", "m", "l">>
INDEX_HTM == <<"i", "n", "d", "e", "x", ".", "h", "t", "m">>

\* The components of a file system path, empty ones dropped: the object a
\* path names does not depend on doubled or trailing slashes.
Components(path) == SelectSeq(Split(path, "/"), LAMBDA w : w # <<>>)

\* The served tree, rooted at the working directory.  What a top-level name
\* is depends on its first character:
\*   a  readable regular file          u  regular file that cannot be opened
\*   d  directory without an index     i  directory holding index.html
\*   p  directory that cannot be listed
\*   .  (the name ".js") readable regular file
\* every other name does not exist.
EntryKind(path) ==
  LET ws == Components(path)
  IN IF ws = <<>> THEN "dir"
     ELSE IF Len(ws) = 1 THEN
       CASE ws[1][1] = "a" -> "file"
         [] ws[1] = EXT_JS -> "file"
         [] ws[1][1] = "u" -> "file_unreadable"
         [] ws[1][1] = "d" -> "dir"
         [] ws[1][1] = "i" -> "dir"
         [] ws[1][1] = "p" -> "dir_unlistable"
         [] OTHER -> "none"
     ELSE IF Len(ws) = 2 /\ ws[1][1] = "i" /\ ws[2] = INDEX_HTML THEN "file"
     ELSE "none"

\* os.path.isdir(path)
isdir(path) == EntryKind(path) \in {"dir", "dir_unlistable"}

\* os.path.isfile(path) : a trailing slash after a regular file names nothing.
isfile(path) ==
  /\ EntryKind(path) \in {"file", "file_unreadable"}
  /\ ~EndsWith(path, <<"/">>)

\* open(path, 'rb') succeeds
CanOpen(path) == EntryKind(path) = "file" /\ ~EndsWith(path, <<"/">>)

\* os.listdir(path) succeeds
CanList(path) == EntryKind(path) = "dir"

\* os.path.join(path, name)
PathJoin(path, name) ==
  IF path = <<>> \/ EndsWith(path, <<"/">>) THEN path \o name
  ELSE path \o <<"/">> \o name

\* SimpleHTTPRequestHandler.translate_path(path), with the served directory
\* written as the empty prefix.  The modelled request paths hold no "%"
\* escape and no whitespace, so unquote and rstrip leave them as they are.
RECURSIVE JoinWords(_, _)
JoinWords(path, words) ==
  IF words = <<>> THEN path
  ELSE IF Head(words) \in {<<".">>, <<".", ".">>}
  THEN JoinWords(path, Tail(words))
  ELSE JoinWords(path \o <<"/">> \o Head(words), Tail(words))

\* translate_path that keeps the query string in the file name.
translate_path_keeps_query(path) ==
  LET trailing_slash == EndsWith(path, <<"/">>)
      words == SelectSeq(Split(path, "/"), LAMBDA w : w # <<>>)
      joined == JoinWords(<<>>, words)
  IN IF trailing_slash THEN joined \o <<"/">> ELSE joined

translate_path(path) ==
  LET p1 == SplitFirst(SplitFirst(path, "?"), "#")
      trailing_slash == EndsWith(p1, <<"/">>)
      words == SelectSeq(Split(p1, "/"), LAMBDA w : w # <<>>)
      joined == JoinWords(<<>>, words)
  IN IF trailing_slash THEN joined \o <<"/">> ELSE joined

\* urllib.parse.urlsplit(path).path for a request target without scheme
\* or authority: the target up to the query or fragment.
UrlPath(path) == SplitFirst(SplitFirst(path, "#"), "?")

(* --------------------------- content types ----------------------------- *)

\* SimpleHTTPRequestHandler.extensions_map
InExtensionsMap(ext) ==
  ext \in {EXT_GZ, EXT_Z, <<".", "b", "z", "2">>, <<".", "x", "z">>}

extensions_map(ext) ==
  CASE ext = EXT_GZ -> "application/gzip"
    [] ext = EXT_Z -> "application/octet-stream"
    [] ext = <<".", "b", "z", "2">> -> "application/x-bzip2"
    [] ext = <<".", "x", "z">> -> "application/x-xz"

\* mimetypes.guess_type(path)[0] on a path whose extension is not an
\* encoding suffix: the types_map entry of the extension, tried as written
\* and then lower-cased; "" stands for None.
mimetypes_guess_type(path) ==
  LET ext == SplitExt(path)
      types_map(e) ==
        CASE e = EXT_JS -> "text/javascript"
          [] e = EXT_MJS -> "text/javascript"
          [] e = EXT_JSON -> "application/json"
          [] e = EXT_HTML -> "text/html"
          [] e = EXT_CSS -> "text/css"
          [] OTHER -> ""
  IN IF types_map(ext) # "" THEN types_map(ext) ELSE types_map(Lower(ext))

\* SimpleHTTPRequestHandler.guess_type(path)
base_guess_type(path) ==
  LET ext == SplitExt(path)
  IN IF InExtensionsMap(ext) THEN extensions_map(ext)
     ELSE IF InExtensionsMap(Lower(ext)) THEN extensions_map(Lower(ext))
     ELSE IF mimetypes_guess_type(path) # "" THEN mimetypes_guess_type(path)
     ELSE "application/octet-stream"

\* guess_type without the override of the type for ".js".
guess_type_no_override(path) == base_guess_type(path)

\* guess_type matching the suffix ".js" without regard to case.
guess_type_any_case(path) ==
  LET mimetype == base_guess_type(path)
  IN IF EndsWith(Lower(path), EXT_JS) THEN JS_MIME ELSE mimetype

\* MyHTTPRequestHandler.guess_type(path)
guess_type(path) ==
  LET mimetype == base_guess_type(path)
  IN IF EndsWith(path, EXT_JS) THEN JS_MIME ELSE mimetype

(* -------------------------- request handler ---------------------------- *)

HTTP_0_9 == <<"H", "T", "T", "P", "/", "0", ".", "9">>
HTTP_1_0 == <<"H", "T", "T", "P", "/", "1", ".", "0">>
HTTP_1_1 == <<"H", "T", "T", "P", "/", "1", ".", "1">>
HTTP_2_0 == <<"H", "T", "T", "P", "/", "2", ".", "0">>
HTTP_1 == <<"H", "T", "T", "P", "/", "1">>
FOO_1_1 == <<"F", "O", "O", "/", "1", ".", "1">>

\* BaseHTTPRequestHandler.default_request_version
default_request_version == HTTP_0_9

\* The comparison  self.protocol_version >= "HTTP/1.1"
ProtocolAtLeast11 == protocol_version \notin {"HTTP/0.9", "HTTP/1.0"}

Digits == {"0", "1", "2", "3", "4", "5", "6", "7", "8", "9"}

DigitValue(c) ==
  CASE c = "0" -> 0 [] c = "1" -> 1 [] c = "2" -> 2 [] c = "3" -> 3
    [] c = "4" -> 4 [] c = "5" -> 5 [] c = "6" -> 6 [] c = "7" -> 7
    [] c = "8" -> 8 [] c = "9" -> 9

\* int(s) succeeds: s is a non-empty string of digits.
IsInt(s) == s # <<>> /\ \A k \in 1..Len(s) : s[k] \in Digits

\* int(s)
RECURSIVE IntOf(_)
IntOf(s) ==
  IF Len(s) = 1 THEN DigitValue(s[1])
  ELSE 10 * IntOf(SubSeq(s, 1, Len(s) - 1)) + DigitValue(s[Len(s)])

\* The try block of parse_request: the version word parsed into a pair of
\* numbers, or the ValueError it raises.
ParseVersion(version) ==
  LET base_version_number == SubSeq(version, FirstIndex(version, "/") + 1,
                                    Len(version))
      version_number == Split(base_version_number, ".")
  IN IF ~StartsWith(version, <<"H", "T", "T", "P", "/">>)
     THEN [ok |-> FALSE, major |-> 0, minor |-> 0]
     ELSE IF Len(version_number) # 2
     THEN [ok |-> FALSE, major |-> 0, minor |-> 0]
     ELSE IF ~(IsInt(version_number[1]) /\ IsInt(version_number[2]))
     THEN [ok |-> FALSE, major |-> 0, minor |-> 0]
     ELSE [ok |-> TRUE, major |-> IntOf(version_number[1]),
           minor |-> IntOf(version_number[2])]

\* Tuple comparison (a1, a2) >= (b1, b2)
PairGE(a1, a2, b1, b2) == a1 > b1 \/ (a1 = b1 /\ a2 >= b2)

\* str.lower() of the header names and values the handler compares.
HeaderLower(k) ==
  CASE k = "Connection" -> "connection"
    [] k = "Content-Type" -> "content-type"
    [] k = "Content-type" -> "content-type"
    [] k = "Content-Length" -> "content-length"
    [] k = "Content-Security-Policy" -> "content-security-policy"
    [] k = "Keep-Alive" -> "keep-alive"
    [] k = "Close" -> "close"
    [] OTHER -> k

\* The line that ends a header block.
CRLF == <<"\r\n">>

NoBody == [src |-> "none", data |-> <<>>]

\* A handler instance as StreamRequestHandler.__init__ leaves it: nothing
\* parsed, nothing queued in _headers_buffer, nothing written to wfile.
NewHandler ==
  [request_version |-> <<>>, command |-> "", path |-> <<>>,
   close_connection |-> TRUE, buf |-> <<>>, wfile |-> <<>>,
   flushes |-> 0, body |-> NoBody, code |-> 0]

\* BaseHTTPRequestHandler.send_response_only(code, message)
send_response_only(h, code, message) ==
  IF h.request_version # HTTP_0_9
  THEN [h EXCEPT !.buf = Append(@, <<protocol_version, ToString(code), message>>)]
  ELSE h

\* BaseHTTPRequestHandler.send_header(keyword, value)
send_header(h, keyword, value) ==
  LET h1 == IF h.request_version # HTTP_0_9
            THEN [h EXCEPT !.buf = Append(@, <<keyword, value>>)]
            ELSE h
  IN IF HeaderLower(keyword) = "connection"
     THEN IF HeaderLower(value) = "close"
          THEN [h1 EXCEPT !.close_connection = TRUE]
          ELSE IF HeaderLower(value) = "keep-alive"
          THEN [h1 EXCEPT !.close_connection = FALSE]
          ELSE h1
     ELSE h1

\* BaseHTTPRequestHandler.flush_headers()
flush_headers(h) ==
  [h EXCEPT !.wfile = @ \o h.buf, !.buf = <<>>, !.flushes = @ + 1]

\* BaseHTTPRequestHandler.end_headers()
base_end_headers(h) ==
  IF h.request_version # HTTP_0_9
  THEN flush_headers([h EXCEPT !.buf = Append(@, CRLF)])
  ELSE h

\* end_headers sending X-Frame-Options before X-Content-Type-Options.
end_headers_swapped(h) ==
  LET h1 == send_header(h, "X-Frame-Options", "DENY")
      h2 == send_header(h1, "X-Content-Type-Options", "nosniff")
      h3 == send_header(h2, "X-XSS-Protection", "1; mode=block")
  IN base_end_headers(h3)

\* end_headers that also sends a Content-Security-Policy header.
end_headers_with_csp(h) ==
  LET h1 == send_header(h, "X-Content-Type-Options", "nosniff")
      h2 == send_header(h1, "X-Frame-Options", "DENY")
      h3 == send_header(h2, "X-XSS-Protection", "1; mode=block")
      h4 == send_header(h3, "Content-Security-Policy", "default-src 'self'")
  IN base_end_headers(h4)

\* end_headers that ends the header block before it sends its headers.
end_headers_after_base(h) ==
  LET h0 == base_end_headers(h)
      h1 == send_header(h0, "X-Content-Type-Options", "nosniff")
      h2 == send_header(h1, "X-Frame-Options", "DENY")
  IN send_header(h2, "X-XSS-Protection", "1; mode=block")

\* MyHTTPRequestHandler.end_headers()
end_headers(h) ==
  LET h1 == send_header(h, "X-Content-Type-Options", "nosniff")
      h2 == send_header(h1, "X-Frame-Options", "DENY")
      h3 == send_header(h2, "X-XSS-Protection", "1; mode=block")
  IN base_end_headers(h3)

\* BaseHTTPRequestHandler.send_response(code, message); log_request records
\* the code.
send_response(h, code, message) ==
  LET h1 == send_response_only([h EXCEPT !.code = code], code, message)
      h2 == send_header(h1, "Server", version_string)
  IN send_header(h2, "Date", "<date>")

\* The page send_error renders from error_message_format, kept as the code
\* it reports.
ErrorPage(code) == [src |-> "error", data |-> <<code>>]

\* send_error that sends the header block and leaves out the error page.
send_error_no_page(h, code, message) ==
  LET h1 == send_response(h, code, message)
      h2 == send_header(h1, "Connection", "close")
  IN end_headers(h2)

\* BaseHTTPRequestHandler.send_error(code, message)
send_error(h, code, message) ==
  LET h1 == send_response(h, code, message)
      h2 == send_header(h1, "Connection", "close")
      hasBody == code >= 200 /\ code \notin {204, 205, 304}
      body == IF hasBody THEN ErrorPage(code) ELSE NoBody
      h3 == IF hasBody
            THEN send_header(send_header(h2, "Content-Type", error_content_type),
                             "Content-Length", ToString(Len(body.data)))
            ELSE h2
      h4 == end_headers(h3)
  IN IF h.command # "HEAD" /\ hasBody THEN [h4 EXCEPT !.body = body] ELSE h4

\* BaseHTTPRequestHandler.parse_request(): the request line is req.nwords
\* words, of which the first is req.command, the second req.path and,
\* from three words on, the last req.version.  The Expect branch needs
\* protocol_version >= "HTTP/1.1" and is never taken.
parse_request(h0, req) ==
  LET h == [h0 EXCEPT !.command = "",
                      !.request_version = default_request_version,
                      !.close_connection = TRUE]
      pv == ParseVersion(req.version)
      hv == IF req.nwords >= 3
            THEN [(IF PairGE(pv.major, pv.minor, 1, 1) /\ ProtocolAtLeast11
                   THEN [h EXCEPT !.close_connection = FALSE] ELSE h)
                  EXCEPT !.request_version = req.version]
            ELSE h
      hc == [(IF req.nwords = 2 THEN [hv EXCEPT !.close_connection = TRUE]
              ELSE hv)
             EXCEPT !.command = req.command,
                    !.path = IF StartsWith(req.path, <<"/", "/">>)
                             THEN <<"/">> \o LStripSlash(req.path)
                             ELSE req.path]
      conntype == HeaderLower(req.connection)
      hk == IF conntype = "close" THEN [hc EXCEPT !.close_connection = TRUE]
            ELSE IF conntype = "keep-alive" /\ ProtocolAtLeast11
            THEN [hc EXCEPT !.close_connection = FALSE]
            ELSE hc
  IN IF req.nwords = 0 THEN [ok |-> FALSE, h |-> h]
     ELSE IF req.nwords >= 3 /\ ~pv.ok
     THEN [ok |-> FALSE, h |-> send_error(h, 400, "Bad request version")]
     ELSE IF req.nwords >= 3 /\ PairGE(pv.major, pv.minor, 2, 0)
     THEN [ok |-> FALSE,
           h |-> send_error(IF PairGE(pv.major, pv.minor, 1, 1)
                               /\ ProtocolAtLeast11
                            THEN [h EXCEPT !.close_connection = FALSE] ELSE h,
                            505, "Invalid HTTP version")]
     ELSE IF ~(2 <= req.nwords /\ req.nwords <= 3)
     THEN [ok |-> FALSE, h |-> send_error(hv, 400, "Bad request syntax")]
     ELSE IF req.nwords = 2 /\ req.command # "GET"
     THEN [ok |-> FALSE,
           h |-> send_error([hv EXCEPT !.close_connection = TRUE], 400,
                            "Bad HTTP/0.9 request type")]
     ELSE IF req.headers = "line_too_long"
     THEN [ok |-> FALSE, h |-> send_error(hc, 431, "Line too long")]
     ELSE IF req.headers = "too_many"
     THEN [ok |-> FALSE, h |-> send_error(hc, 431, "Too many headers")]
     ELSE [ok |-> TRUE, h |-> hk]

\* SimpleHTTPRequestHandler.list_directory(path): f says whether a stream
\* with the listing is returned.
list_directory(h, path) ==
  IF ~CanList(path)
  THEN [f |-> FALSE, body |-> NoBody,
        h |-> send_error(h, 404, "No permission to list directory")]
  ELSE LET encoded == [src |-> "listing", data |-> <<>>]
           h1 == send_response(h, 200, "OK")
           h2 == send_header(h1, "Content-type", "text/html; charset=utf-8")
           h3 == send_header(h2, "Content-Length", ToString(Len(encoded.data)))
       IN [f |-> TRUE, body |-> encoded, h |-> end_headers(h3)]

\* SimpleHTTPRequestHandler.send_head(): data is what the opened file
\* holds, req.ims how the If-Modified-Since test of the request comes out.
send_head(h, req, data) ==
  LET path0 == translate_path(h.path)
      redirect == isdir(path0) /\ ~EndsWith(UrlPath(h.path), <<"/">>)
      hasIndexHtml == isdir(path0) /\ isfile(PathJoin(path0, INDEX_HTML))
      hasIndexHtm == isdir(path0) /\ isfile(PathJoin(path0, INDEX_HTM))
      path == IF hasIndexHtml THEN PathJoin(path0, INDEX_HTML)
              ELSE IF hasIndexHtm THEN PathJoin(path0, INDEX_HTM)
              ELSE path0
      ctype == guess_type(path)
      notFound == [f |-> FALSE, body |-> NoBody,
                   h |-> send_error(h, 404, "File not found")]
  IN IF redirect
     THEN LET h1 == send_response(h, 301, "Moved Permanently")
              h2 == send_header(h1, "Location", "<new_url>")
              h3 == send_header(h2, "Content-Length", "0")
          IN [f |-> FALSE, body |-> NoBody, h |-> end_headers(h3)]
     ELSE IF isdir(path0) /\ ~hasIndexHtml /\ ~hasIndexHtm
     THEN list_directory(h, path0)
     ELSE IF EndsWith(path, <<"/">>) THEN notFound
     ELSE IF ~CanOpen(path) THEN notFound
     ELSE IF req.ims = "not_modified"
     THEN [f |-> FALSE, body |-> NoBody,
           h |-> end_headers(send_response(h, 304, "Not Modified"))]
     ELSE LET h1 == send_response(h, 200, "OK")
              h2 == send_header(h1, "Content-type", ctype)
              h3 == send_header(h2, "Content-Length", ToString(Len(data)))
              h4 == send_header(h3, "Last-Modified", "<mtime>")
          IN [f |-> TRUE, body |-> [src |-> "file", data |-> data],
              h |-> end_headers(h4)]

\* SimpleHTTPRequestHandler.do_GET(): copyfile writes the stream to wfile.
do_GET(h, req, data) ==
  LET r == send_head(h, req, data)
  IN IF r.f THEN [r.h EXCEPT !.body = r.body] ELSE r.h

\* SimpleHTTPRequestHandler.do_HEAD(): the stream is closed unread.
do_HEAD(h, req, data) == send_head(h, req, data).h

\* BaseHTTPRequestHandler.handle_one_request()
handle_one_request(h, req, data) ==
  IF req.raw = "too_long"
  THEN send_error([h EXCEPT !.request_version = <<>>, !.command = ""], 414,
                  "Request-URI Too Long")
  ELSE IF req.raw = "eof" THEN [h EXCEPT !.close_connection = TRUE]
  ELSE LET p == parse_request(h, req)
       IN IF ~p.ok THEN p.h
          ELSE IF p.h.command = "GET" THEN do_GET(p.h, req, data)
          ELSE IF p.h.command = "HEAD" THEN do_HEAD(p.h, req, data)
          ELSE send_error(p.h, 501, "Unsupported method")

\* BaseHTTPRequestHandler.handle(): further requests are read from the
\* connection only while close_connection is false, which no path through
\* handle_one_request leaves it with protocol_version "HTTP/1.0".
handle(h, req, data) == handle_one_request(h, req, data)

(* ------------------------------ requests ------------------------------- *)

Stems == {"a", "u", "d", "i", "p", "n"}

Exts ==
  {EXT_JS, EXT_JS_UPPER, EXT_MJS, EXT_JSON, EXT_HTML, EXT_CSS, EXT_ZZ,
   EXT_GZ, <<>>}

\* Top-level names requested: a stem and an extension, and the dot file
\* ".js".
Names == {<<st>> \o ext : st \in Stems, ext \in Exts} \cup {EXT_JS}

Suffixes == {<<>>, <<"/">>, <<"?", "q">>}

Paths ==
  {<<"/">> \o n \o suf : n \in Names, suf \in Suffixes}
    \cup {<<"/">>, <<"/", "/", "a">> \o EXT_JS,
          <<"/", "i", "/">> \o INDEX_HTML}

\* A few paths for the request lines that fail before a path is looked at.
FewPaths == {<<"/">>, <<"/", "a">> \o EXT_JS, <<"/", "n">> \o EXT_JS}

Commands == {"GET", "HEAD", "POST"}

\* Contents a file of the served tree may hold when it is read.
RECURSIVE SeqsUpTo(_, _)
SeqsUpTo(S, n) ==
  IF n = 0 THEN {<<>>}
  ELSE SeqsUpTo(S, n - 1)
         \cup {Append(q, x) : q \in SeqsUpTo(S, n - 1), x \in S}

Contents == SeqsUpTo({0, 1}, MaxContentLen)

Request(raw, nwords, command, path, version, ims, headers, connection) ==
  [raw |-> raw, nwords |-> nwords, command |-> command, path |-> path,
   version |-> version, ims |-> ims, headers |-> headers,
   connection |-> connection]

\* What a client may send on a connection.
Requests ==
  \* request lines "<command> <path> HTTP/1.x" and "<command> <path>"
  {Request("line", 3, c, p, v, i, "ok", "") :
     c \in Commands, p \in Paths, v \in {HTTP_1_0, HTTP_1_1},
     i \in {"absent", "not_modified", "modified", "ignored"}}
  \cup {Request("line", 2, c, p, <<>>, i, "ok", "") :
     c \in Commands, p \in Paths, i \in {"absent", "not_modified"}}
  \* other version words, other word counts
  \cup {Request("line", 3, c, p, v, "absent", "ok", "") :
     c \in Commands, p \in FewPaths,
     v \in {HTTP_0_9, HTTP_2_0, HTTP_1, FOO_1_1}}
  \cup {Request("line", n, c, p, v, "absent", "ok", "") :
     n \in {0, 1, 4}, c \in Commands, p \in FewPaths,
     v \in {HTTP_1_1, FOO_1_1}}
  \* header blocks the parser rejects, Connection headers
  \cup {Request("line", 3, c, p, HTTP_1_1, "absent", hd, cn) :
     c \in Commands, p \in FewPaths,
     hd \in {"ok", "line_too_long", "too_many"},
     cn \in {"", "Close", "Keep-Alive"}}
  \* an over-long request line, a connection closed without a request
  \cup {Request(r, 0, "", <<>>, <<>>, "absent", "ok", "") :
     r \in {"too_long", "eof"}}

(* ---------------------------- state machine ---------------------------- *)

VARIABLES
  pc,            \* the statement of the script that runs next
  stdout,        \* the lines print() has written
  portFree,      \* whether port 8000 can be bound
  bindLog,       \* the ports socket.bind was called with
  exitCause,     \* why the process ended
  conn,          \* <<req>>: an accepted connection with its request
  response,      \* <<r>>: what the handler of the last connection did
  accepted,      \* connections accepted
  handled,       \* connections whose handler has finished
  guess          \* <<g>>: a path guess_type was applied to, and its results

vars ==
  <<pc, stdout, portFree, bindLog, exitCause, conn, response, accepted,
    handled, guess>>

\* The three lines the script prints; their Korean text is written in English.
LINE_URL == "server start: http://localhost:8000"
LINE_NOTE == "this server runs under conditions similar to a Vercel deployment"
LINE_STOP == "press Ctrl+C to stop"

\* The lifecycle state of section 4.2 of the specification.
Lifecycle ==
  IF pc = "serve" THEN "SERVING"
  ELSE IF pc = "done" THEN "EXITED"
  ELSE "NOT_STARTED"

Init ==
  /\ pc = "print1"
  /\ stdout = <<>>
  /\ portFree \in BOOLEAN
  /\ bindLog = <<>>
  /\ exitCause = ""
  /\ conn = <<>>
  /\ response = <<>>
  /\ accepted = 0
  /\ handled = 0
  /\ guess = <<>>

\* The three print() calls of the script.
Print1 ==
  /\ pc = "print1"
  /\ stdout' = Append(stdout, LINE_URL)
  /\ pc' = "print2"
  /\ UNCHANGED <<portFree, bindLog, exitCause, conn, response, accepted, handled, guess>>

Print2 ==
  /\ pc = "print2"
  /\ stdout' = Append(stdout, LINE_NOTE)
  /\ pc' = "print3"
  /\ UNCHANGED <<portFree, bindLog, exitCause, conn, response, accepted, handled, guess>>

\* The third print() left out.
Print3_silent ==
  /\ pc = "print3"
  /\ stdout' = stdout
  /\ pc' = "bind"
  /\ UNCHANGED <<portFree, bindLog, exitCause, conn, response, accepted, handled, guess>>

Print3 ==
  /\ pc = "print3"
  /\ stdout' = Append(stdout, LINE_STOP)
  /\ pc' = "bind"
  /\ UNCHANGED <<portFree, bindLog, exitCause, conn, response, accepted, handled, guess>>

\* A constructor call that is tried again, once, when bind fails.
Bind_retry ==
  /\ pc = "bind"
  /\ bindLog' = Append(bindLog, PORT)
  /\ IF portFree
     THEN pc' = "serve" /\ exitCause' = exitCause
     ELSE IF bindLog = <<>>
     THEN pc' = "bind" /\ exitCause' = exitCause
     ELSE pc' = "done" /\ exitCause' = "bind_error"
  /\ UNCHANGED <<stdout, portFree, conn, response, accepted, handled, guess>>

\* socketserver.TCPServer(("", PORT), Handler): server_bind and
\* server_activate; an OSError of bind is re-raised and ends the script.
Bind ==
  /\ pc = "bind"
  /\ bindLog' = Append(bindLog, PORT)
  /\ IF portFree
     THEN pc' = "serve" /\ exitCause' = exitCause
     ELSE pc' = "done" /\ exitCause' = "bind_error"
  /\ UNCHANGED <<stdout, portFree, conn, response, accepted, handled, guess>>

\* serve_forever: get_request() accepts a connection on which a client has
\* sent req.
GetRequest ==
  /\ pc = "serve"
  /\ conn = <<>>
  /\ accepted < MaxRequests
  /\ \E req \in Requests : conn' = <<req>>
  /\ accepted' = accepted + 1
  /\ UNCHANGED <<pc, stdout, portFree, bindLog, exitCause, response, handled, guess>>

\* serve_forever: finish_request() runs a new handler instance on the
\* accepted connection; response is what that handler wrote.
HandleRequest ==
  /\ pc = "serve"
  /\ conn # <<>>
  /\ response = <<>>
  /\ \E data \in Contents :
       response' = <<[req |-> conn[1], data |-> data,
                      h |-> handle(NewHandler, conn[1], data)]>>
  /\ handled' = handled + 1
  /\ UNCHANGED <<pc, stdout, portFree, bindLog, exitCause, conn, accepted, guess>>

\* An Exception of the handler that is not caught and ends serve_forever.
HandleError_exits ==
  /\ pc = "serve"
  /\ conn # <<>>
  /\ response = <<>>
  /\ conn' = <<>>
  /\ handled' = handled + 1
  /\ pc' = "done"
  /\ exitCause' = "handler_error"
  /\ UNCHANGED <<stdout, portFree, bindLog, response, accepted, guess>>

\* serve_forever: the handler raises an Exception (the client has reset
\* the connection); handle_error reports it, shutdown_request closes the
\* connection and the loop goes on.
HandleError ==
  /\ pc = "serve"
  /\ conn # <<>>
  /\ response = <<>>
  /\ conn' = <<>>
  /\ handled' = handled + 1
  /\ UNCHANGED <<pc, stdout, portFree, bindLog, exitCause, response, accepted, guess>>

\* serve_forever: shutdown_request() closes the connection once the handler
\* has returned; the loop is back at select().
ShutdownRequest ==
  /\ pc = "serve"
  /\ conn # <<>>
  /\ response # <<>>
  /\ conn' = <<>>
  /\ response' = <<>>
  /\ UNCHANGED <<pc, stdout, portFree, bindLog, exitCause, accepted, handled, guess>>

\* KeyboardInterrupt or a signal that ends the process.
Interrupt ==
  /\ pc # "done"
  /\ pc' = "done"
  /\ exitCause' = "interrupt"
  /\ UNCHANGED <<stdout, portFree, bindLog, conn, response, accepted, handled, guess>>

Next ==
  \/ Print1
  \/ Print2
  \/ Print3
  \/ Bind
  \/ GetRequest
  \/ HandleRequest
  \/ HandleError
  \/ ShutdownRequest
  \/ Interrupt

Spec == Init /\ [][Next]_vars

\* Paths guess_type is applied to: the request paths as sent and as
\* translate_path maps them into the served tree.
GuessPaths == Paths \cup {translate_path(p) : p \in Paths}

\* guess_type applied to one path; the server itself does not run.
GuessType ==
  /\ \E path \in GuessPaths :
       guess' = <<[path |-> path, result |-> guess_type(path),
                   base |-> base_guess_type(path)]>>
  /\ UNCHANGED <<pc, stdout, portFree, bindLog, exitCause, conn, response,
                 accepted, handled>>

InitGuess == Init

NextGuess == GuessType

SpecGuess == InitGuess /\ [][NextGuess]_vars

TypeOK ==
  /\ pc \in {"print1", "print2", "print3", "bind", "serve", "done"}
  /\ Len(conn) <= 1
  /\ Len(response) <= 1
  /\ handled <= accepted
  /\ accepted <= MaxRequests
  /\ response # <<>> => response[1].h.close_connection

(* ------------------------- reading a response -------------------------- *)

\* The handler record of the response in flight.
H == response[1].h

\* The request that response answers.
Req == response[1].req

\* The status code on the status line of a header block, "" without one.
StatusOf(wire) ==
  IF wire # <<>> /\ Len(wire[1]) = 3 THEN wire[1][2] ELSE ""

\* Positions of the header lines of a block with the given name, names
\* compared without regard to case.
HeaderIndexes(wire, name) ==
  {k \in 1..Len(wire) :
     Len(wire[k]) = 2 /\ HeaderLower(wire[k][1]) = HeaderLower(name)}

HeaderValues(wire, name) == {wire[k][2] : k \in HeaderIndexes(wire, name)}

\* The header occurs exactly once in the block, with exactly this value.
HasOnce(wire, name, value) ==
  /\ Cardinality(HeaderIndexes(wire, name)) = 1
  /\ HeaderValues(wire, name) = {value}

SecurityHeaders ==
  << <<"X-Content-Type-Options", "nosniff">>,
     <<"X-Frame-Options", "DENY">>,
     <<"X-XSS-Protection", "1; mode=block">> >>

\* Each security header is in the block exactly once, and they come in
\* the order nosniff, DENY, mode=block.
SecurityHeadersOnceInOrder(wire) ==
  /\ \A n \in 1..3 : HasOnce(wire, SecurityHeaders[n][1], SecurityHeaders[n][2])
  /\ \E a, b, c \in 1..Len(wire) :
       /\ a < b /\ b < c
       /\ wire[a] = SecurityHeaders[1]
       /\ wire[b] = SecurityHeaders[2]
       /\ wire[c] = SecurityHeaders[3]

\* The handler has written something to the connection.
Emitted(h) == h.wfile # <<>> \/ h.body.src # "none"

\* The request line is "<GET or HEAD> <path> HTTP/1.x" and the header
\* block of the request is accepted.
PlainRequest(req) ==
  /\ req.raw = "line"
  /\ req.nwords = 3
  /\ req.version \in {HTTP_1_0, HTTP_1_1}
  /\ req.headers = "ok"
  /\ req.command \in {"GET", "HEAD"}

(* ------------------------------- claims -------------------------------- *)

\* C1, as stated: every response the server emits, whatever the request,
\* has each of the three security headers exactly once, in order.
C1_AsStated ==
  (response # <<>> /\ Emitted(H)) => SecurityHeadersOnceInOrder(H.wfile)

\* C1, amended: every response to a request whose request_version is not
\* HTTP/0.9 has each of the three security headers exactly once, in order;
\* a request handled as HTTP/0.9 is answered without status line and
\* without any header.
C1_SecurityHeaders ==
  response # <<>> =>
    /\ (Emitted(H) /\ H.request_version # HTTP_0_9)
         => SecurityHeadersOnceInOrder(H.wfile)
    /\ H.request_version = HTTP_0_9 => H.wfile = <<>>

\* A 404 error response that carries the three headers.
C1_Witness ==
  /\ response # <<>>
  /\ StatusOf(H.wfile) = "404"
  /\ SecurityHeadersOnceInOrder(H.wfile)

\* The request resolves to an existing regular file named *.js.
ResolvesToJsFile(req) ==
  /\ req.raw = "line"
  /\ req.nwords \in {2, 3}
  /\ EntryKind(translate_path(req.path)) \in {"file", "file_unreadable"}
  /\ ~EndsWith(translate_path(req.path), <<"/">>)
  /\ EndsWith(translate_path(req.path), EXT_JS)

\* C2, as stated: every request whose path resolves to an existing regular
\* file whose name ends in ".js" is answered 200 with Content-Type
\* application/javascript.
C2_AsStated ==
  (response # <<>> /\ ResolvesToJsFile(Req)) =>
    /\ StatusOf(H.wfile) = "200"
    /\ HasOnce(H.wfile, "Content-Type", JS_MIME)

\* C2, amended: every GET or HEAD request with a request line
\* "<command> <path> HTTP/1.x" whose path resolves to an existing regular
\* file that can be opened, whose name ends in ".js", and which is not
\* answered 304 under If-Modified-Since, is answered 200 with Content-Type
\* exactly application/javascript, whatever the file holds.
C2_JsFileServed ==
  (/\ response # <<>>
   /\ PlainRequest(Req)
   /\ ResolvesToJsFile(Req)
   /\ EntryKind(translate_path(Req.path)) = "file"
   /\ Req.ims # "not_modified") =>
    /\ StatusOf(H.wfile) = "200"
    /\ HasOnce(H.wfile, "Content-Type", JS_MIME)
    /\ HasOnce(H.wfile, "Content-Length", ToString(Len(response[1].data)))
    /\ Req.command = "GET" => H.body = [src |-> "file", data |-> response[1].data]

\* A non-empty *.js file served with a query string on the request.
C2_Witness ==
  /\ response # <<>>
  /\ PlainRequest(Req)
  /\ Req.path = <<"/", "a">> \o EXT_JS \o <<"?", "q">>
  /\ H.body.src = "file" /\ H.body.data # <<>>
  /\ HasOnce(H.wfile, "Content-Type", JS_MIME)

HasJsSuffix(path) ==
  /\ Len(path) >= 3
  /\ path[Len(path) - 2] = "."
  /\ path[Len(path) - 1] = "j"
  /\ path[Len(path)] = "s"

\* C4: guess_type(path) is application/javascript when the path ends in
\* ".js" and the base handler's guess otherwise; ".JS", ".mjs", ".json",
\* ".html", ".css" and unknown extensions keep the base handler's types.
C4_GuessTypeReference ==
  guess # <<>> =>
    LET g == guess[1]
    IN /\ HasJsSuffix(g.path) => g.result = JS_MIME
       /\ ~HasJsSuffix(g.path) => g.result = g.base
       /\ EndsWith(g.path, EXT_JS_UPPER) => g.result = "text/javascript"
       /\ EndsWith(g.path, EXT_MJS) => g.result = "text/javascript"
       /\ EndsWith(g.path, EXT_JSON) => g.result = "application/json"
       /\ EndsWith(g.path, EXT_HTML) => g.result = "text/html"
       /\ EndsWith(g.path, EXT_CSS) => g.result = "text/css"
       /\ EndsWith(g.path, EXT_ZZ) => g.result = "application/octet-stream"

\* guess_type applied to a path ending in ".JS": the base type is kept.
C4_Witness ==
  /\ guess # <<>>
  /\ EndsWith(guess[1].path, EXT_JS_UPPER)
  /\ guess[1].result = guess[1].base
  /\ guess[1].result # JS_MIME

\* C5: no response has a Content-Security-Policy header.
C5_NoCSP ==
  response # <<>> =>
    /\ HeaderIndexes(H.wfile, "Content-Security-Policy") = {}
    /\ HeaderIndexes(H.buf, "Content-Security-Policy") = {}

\* A second response of the run, with a header block.
C5_Witness ==
  /\ response # <<>>
  /\ handled >= 2
  /\ SecurityHeadersOnceInOrder(H.wfile)

\* Nothing exists under the path of the request.
NamesNothing(req) ==
  /\ req.raw = "line"
  /\ req.nwords \in {2, 3}
  /\ EntryKind(translate_path(req.path)) = "none"

BaseHeaderNames ==
  {"Server", "Date", "Connection", "Content-Type", "Content-type",
   "Content-Length", "Last-Modified", "Location"}

\* C7: in every header block the three security headers are the last
\* three headers, right before the blank line; what precedes them is the
\* status line and the base handler's headers; and nothing stays queued.
C7_HeadersLast ==
  response # <<>> =>
    /\ H.buf = <<>>
    /\ H.wfile # <<>> =>
         LET n == Len(H.wfile)
         IN /\ n >= 6
            /\ H.flushes = 1
            /\ H.wfile[n] = CRLF
            /\ \A k \in 1..3 : H.wfile[n - 4 + k] = SecurityHeaders[k]
            /\ Len(H.wfile[1]) = 3 /\ H.wfile[1][1] = protocol_version
            /\ \A k \in 2..(n - 4) :
                 /\ Len(H.wfile[k]) = 2
                 /\ H.wfile[k][1] \in BaseHeaderNames

\* A 200 response with Content-type, Content-Length and Last-Modified
\* ahead of the security headers.
C7_Witness ==
  /\ response # <<>>
  /\ StatusOf(H.wfile) = "200"
  /\ Len(H.wfile) = 10
  /\ H.wfile[6][1] = "Last-Modified"
  /\ H.wfile[7] = SecurityHeaders[1]

\* C8: SERVING is entered only from NOT_STARTED by a successful bind of
\* port 8000 and left only for process exit by an interrupt; a step that
\* handles a request, error response or not, stays in SERVING; nothing
\* follows process exit.
C8_Step ==
  /\ (Lifecycle # "SERVING" /\ Lifecycle' = "SERVING")
       => /\ Lifecycle = "NOT_STARTED"
          /\ portFree
          /\ bindLog' = Append(bindLog, PORT)
  /\ (Lifecycle = "SERVING" /\ Lifecycle' # "SERVING")
       => Lifecycle' = "EXITED" /\ exitCause' = "interrupt"
  /\ (Lifecycle = "SERVING" /\ handled' # handled) => Lifecycle' = "SERVING"
  /\ (Lifecycle = "SERVING" /\ conn # <<>> /\ conn' = <<>>)
       => Lifecycle' = "SERVING"
  /\ Lifecycle = "EXITED" => Lifecycle' = "EXITED"
  /\ Lifecycle' \in {"NOT_STARTED", "SERVING", "EXITED"}

C9_PortInUse ==
  ~portFree =>
    /\ Lifecycle # "SERVING"
    /\ Len(bindLog) <= 1
    /\ \A k \in 1..Len(bindLog) : bindLog[k] = PORT
    /\ bindLog # <<>> => pc = "done" /\ exitCause = "bind_error"
    /\ accepted = 0 /\ handled = 0 /\ conn = <<>> /\ response = <<>>

\* The bind has failed.
C9_Witness ==
  /\ ~portFree
  /\ bindLog = <<PORT>>
  /\ exitCause = "bind_error"

StartupLines == <<LINE_URL, LINE_NOTE, LINE_STOP>>

\* C10: when bind is attempted, and at every later time, the three startup
\* lines have been printed, in order, also in a run whose bind fails.
C10_PrintedBeforeBind ==
  /\ (pc = "bind" \/ bindLog # <<>>) => stdout = StartupLines
  /\ Len(stdout) <= 3
  /\ \A k \in 1..Len(stdout) : stdout[k] = StartupLines[k]

\* A run whose bind has failed, with the three lines printed.
C10_Witness ==
  /\ ~portFree
  /\ exitCause = "bind_error"
  /\ stdout = StartupLines

====
